---- MODULE Spec2Model ----
(* A model of the worker pool of src/lib.rs: ThreadPool::new, ThreadPool::execute, *)
(* Drop for ThreadPool and the receive-and-execute loop of Worker::new.            *)
(* The mpsc channel is a FIFO sequence; the Arc<Mutex<Receiver>> is a lock with a   *)
(* holder and a poison flag; every worker thread and the thread that owns the pool  *)
(* have a program counter.                                                          *)
EXTENDS Integers, Sequences, FiniteSets, TLC

\* ---------------------------------------------------------------- bounds
MaxSize == 2
MaxJobs == 3

NoWorker == 0 - 1

JobKinds == {"ok", "panic"}
JobIds == 1..MaxJobs

VARIABLES
    sizeArg,      \* the size ThreadPool::new was called with
    created,      \* "none" before ThreadPool::new, then "Ok" or "Err"
    workers,      \* ThreadPool.workers: index -> [id, thread]
    sender,       \* ThreadPool.sender: "none", "alive", "dropped"
    queue,        \* the messages in the channel, head first
    pc,           \* position of each worker thread in its loop
    msg,          \* the message a worker took from the channel
    lock,         \* the worker holding the MutexGuard, or NoWorker
    poisoned,     \* the Mutex's poison flag
    mainPc,       \* position of the thread owning the pool
    unwinding,    \* drop runs while the owning thread unwinds from a panic
    sendIdx,      \* Terminate messages sent by drop so far
    joinIdx,      \* index of the worker drop is joining
    nextJob,      \* id the next execute call gives its job
    kind,         \* what the closure of a job does when called
    jobState,     \* "none", "rejected", "queued", "taken", "running", "done",
                  \* "panicked", "dropped"
    jobWorker,    \* the worker that dequeued a job
    runs,         \* how often the closure of a job was called
    counter,      \* the counter the "ok" closures increment
    deqLog,       \* the job ids in the order workers dequeued them
    execResult,   \* outcome of the last execute call: "none", "ok", "panic"
    execAlive,    \* number of live worker threads at the last execute call
    dropFailedAt, \* where drop panicked: "none", "send", "join"
    termLog,      \* the workers in the order they dequeued a Terminate
    joinLog       \* the workers in the order drop took their thread handle

vars == <<sizeArg, created, workers, sender, queue, pc, msg, lock, poisoned, mainPc,
          unwinding, sendIdx, joinIdx, nextJob, kind, jobState, jobWorker,
          runs, counter, deqLog, execResult, execAlive, dropFailedAt,
          termLog, joinLog>>

mainVars == <<sizeArg, created, workers, sender, mainPc, unwinding, sendIdx, joinIdx,
              nextJob, kind, execResult, execAlive, dropFailedAt, joinLog>>

\* ---------------------------------------------------------------- messages
NewJob(j) == [type |-> "NewJob", job |-> j]
Terminate == [type |-> "Terminate", job |-> 0]
NoMsg == [type |-> "None", job |-> 0]

\* ---------------------------------------------------------------- helpers
WorkerIds == DOMAIN workers

\* A worker thread is Running from its spawn until its closure returns or unwinds.
Running(w) == pc[w] \in {"lock", "recv", "got", "exec"}

LiveWorkers == {w \in WorkerIds : Running(w)}

\* The Receiver lives as long as one clone of the Arc does; each worker closure
\* owns one clone, and new's own clone is gone when new returns.
ReceiverAlive == LiveWorkers # {}

\* send failing as soon as one worker thread is gone
SendOkAllAlive == WorkerIds # {} /\ \A w \in WorkerIds : Running(w)

\* mpsc::Sender::send: Ok iff the receiver has not been dropped.
SendOk == ReceiverAlive

\* recv taking the newest message
recvLifo(q) == [msg |-> q[Len(q)], rest |-> SubSeq(q, 1, Len(q) - 1)]

\* mpsc::Receiver::recv on a non-empty channel: the oldest message.
recv(q) == [msg |-> Head(q), rest |-> Tail(q)]

\* the job ids of the NewJob messages of a queue, head first
RECURSIVE JobsOf(_)
JobsOf(q) ==
    IF q = <<>> THEN <<>>
    ELSE IF Head(q).type = "NewJob" THEN <<Head(q).job>> \o JobsOf(Tail(q))
    ELSE JobsOf(Tail(q))

SeqToSet(s) == {s[i] : i \in 1..Len(s)}

\* Dropping the Receiver discards the messages still in the channel.
DiscardJobs(js, q) ==
    [j \in JobIds |-> IF j \in SeqToSet(JobsOf(q)) THEN "dropped" ELSE js[j]]

\* ---------------------------------------------------------------- Init
Init ==
    /\ sizeArg = 0
    /\ created = "none"
    /\ workers = <<>>
    /\ sender = "none"
    /\ queue = <<>>
    /\ pc = <<>>
    /\ msg = <<>>
    /\ lock = NoWorker
    /\ poisoned = FALSE
    /\ mainPc = "init"
    /\ unwinding = FALSE
    /\ sendIdx = 0
    /\ joinIdx = 0
    /\ nextJob = 1
    /\ kind = [j \in JobIds |-> "none"]
    /\ jobState = [j \in JobIds |-> "none"]
    /\ jobWorker = [j \in JobIds |-> NoWorker]
    /\ runs = [j \in JobIds |-> 0]
    /\ counter = 0
    /\ deqLog = <<>>
    /\ execResult = "none"
    /\ execAlive = 0
    /\ dropFailedAt = "none"
    /\ termLog = <<>>
    /\ joinLog = <<>>

\* ---------------------------------------------------------------- ThreadPool::new
Worker_new(id) == [id |-> id, thread |-> "Some"]

\* new with the ids counted from 1 (the first worker is never spawned)
NewOffByOne(size) ==
    /\ mainPc = "init"
    /\ sizeArg' = size
    /\ IF size = 0
       THEN /\ created' = "Err"
            /\ mainPc' = "err"
            /\ UNCHANGED <<workers, sender, pc, msg>>
       ELSE /\ created' = "Ok"
            /\ mainPc' = "run"
            /\ workers' = [id \in 1..(size - 1) |-> Worker_new(id)]
            /\ pc' = [id \in 1..(size - 1) |-> "lock"]
            /\ msg' = [id \in 1..(size - 1) |-> NoMsg]
            /\ sender' = "alive"
    /\ UNCHANGED <<termLog, joinLog, queue, lock, poisoned, unwinding, sendIdx, joinIdx, nextJob,
                   kind, jobState, jobWorker, runs, counter, deqLog,
                   execResult, execAlive, dropFailedAt>>

New(size) ==
    /\ mainPc = "init"
    /\ sizeArg' = size
    /\ IF size = 0
       THEN /\ created' = "Err"
            /\ mainPc' = "err"
            /\ UNCHANGED <<workers, sender, pc, msg>>
       ELSE /\ created' = "Ok"
            /\ mainPc' = "run"
            /\ workers' = [id \in 0..(size - 1) |-> Worker_new(id)]
            /\ pc' = [id \in 0..(size - 1) |-> "lock"]
            /\ msg' = [id \in 0..(size - 1) |-> NoMsg]
            /\ sender' = "alive"
    /\ UNCHANGED <<termLog, joinLog, queue, lock, poisoned, unwinding, sendIdx, joinIdx, nextJob,
                   kind, jobState, jobWorker, runs, counter, deqLog,
                   execResult, execAlive, dropFailedAt>>

\* ---------------------------------------------------------------- ThreadPool::execute
\* execute putting the message in front of the queued ones
ExecutePrepend(k) ==
    /\ mainPc = "run"
    /\ nextJob <= MaxJobs
    /\ nextJob' = nextJob + 1
    /\ kind' = [kind EXCEPT ![nextJob] = k]
    /\ execAlive' = Cardinality(LiveWorkers)
    /\ IF SendOk
       THEN /\ queue' = <<NewJob(nextJob)>> \o queue
            /\ jobState' = [jobState EXCEPT ![nextJob] = "queued"]
            /\ execResult' = "ok"
            /\ UNCHANGED mainPc
       ELSE /\ execResult' = "panic"
            /\ mainPc' = "execPanicked"
            /\ jobState' = [jobState EXCEPT ![nextJob] = "rejected"]
            /\ UNCHANGED queue
    /\ UNCHANGED <<termLog, joinLog, sizeArg, created, workers, sender, pc, msg, lock, poisoned,
                   unwinding, sendIdx, joinIdx, jobWorker, runs, counter, deqLog,
                   dropFailedAt>>

Execute(k) ==
    /\ mainPc = "run"
    /\ nextJob <= MaxJobs
    /\ nextJob' = nextJob + 1
    /\ kind' = [kind EXCEPT ![nextJob] = k]
    /\ execAlive' = Cardinality(LiveWorkers)
    /\ IF SendOk
       THEN /\ queue' = Append(queue, NewJob(nextJob))
            /\ jobState' = [jobState EXCEPT ![nextJob] = "queued"]
            /\ execResult' = "ok"
            /\ UNCHANGED mainPc
       ELSE /\ execResult' = "panic"
            /\ mainPc' = "execPanicked"
            /\ jobState' = [jobState EXCEPT ![nextJob] = "rejected"]
            /\ UNCHANGED queue
    /\ UNCHANGED <<termLog, joinLog, sizeArg, created, workers, sender, pc, msg, lock, poisoned, unwinding,
                   sendIdx, joinIdx, jobWorker, runs, counter, deqLog,
                   dropFailedAt>>

\* ---------------------------------------------------------------- Worker::new, the thread's loop
\* The closure of worker w returns or unwinds: its clone of the Arc is dropped,
\* and with the last clone the Receiver and the messages still in the channel.
ThreadExit(w, js) ==
    IF LiveWorkers \ {w} = {}
    THEN /\ queue' = <<>>
         /\ jobState' = DiscardJobs(js, queue)
    ELSE /\ queue' = queue
         /\ jobState' = js

\* lock() granted while another worker holds the guard
LockNoMutex(w) ==
    /\ pc[w] = "lock"
    /\ IF poisoned
       THEN /\ pc' = [pc EXCEPT ![w] = "panicked"]
            /\ ThreadExit(w, jobState)
            /\ UNCHANGED lock
       ELSE /\ pc' = [pc EXCEPT ![w] = "recv"]
            /\ lock' = w
            /\ UNCHANGED <<queue, jobState>>
    /\ UNCHANGED <<mainVars, msg, poisoned, jobWorker, runs, counter, deqLog, termLog>>

\* receiver.lock().unwrap()
Lock(w) ==
    /\ pc[w] = "lock"
    /\ lock = NoWorker
    /\ IF poisoned
       THEN /\ pc' = [pc EXCEPT ![w] = "panicked"]
            /\ ThreadExit(w, jobState)
            /\ UNCHANGED lock
       ELSE /\ pc' = [pc EXCEPT ![w] = "recv"]
            /\ lock' = w
            /\ UNCHANGED <<queue, jobState>>
    /\ UNCHANGED <<mainVars, msg, poisoned, jobWorker, runs, counter, deqLog, termLog>>

\* .recv().unwrap(), called with the guard held; blocks while the channel is
\* empty and the Sender lives, fails when it is empty and the Sender is gone.
Recv(w) ==
    /\ pc[w] = "recv"
    /\ lock = w
    /\ IF queue # <<>>
       THEN LET r == recv(queue) IN
            /\ queue' = r.rest
            /\ msg' = [msg EXCEPT ![w] = r.msg]
            /\ pc' = [pc EXCEPT ![w] = "got"]
            /\ IF r.msg.type = "NewJob"
               THEN /\ jobState' = [jobState EXCEPT ![r.msg.job] = "taken"]
                    /\ jobWorker' = [jobWorker EXCEPT ![r.msg.job] = w]
                    /\ deqLog' = Append(deqLog, r.msg.job)
                    /\ UNCHANGED termLog
               ELSE /\ termLog' = Append(termLog, w)
                    /\ UNCHANGED <<jobState, jobWorker, deqLog>>
            /\ UNCHANGED <<lock, poisoned>>
       ELSE /\ sender = "dropped"
            /\ pc' = [pc EXCEPT ![w] = "panicked"]
            /\ poisoned' = TRUE
            /\ lock' = NoWorker
            /\ ThreadExit(w, jobState)
            /\ UNCHANGED <<msg, jobWorker, deqLog, termLog>>
    /\ UNCHANGED <<mainVars, runs, counter>>

\* the job handed to a detached execution, the loop not waiting for it
UnlockSpawn(w) ==
    /\ pc[w] = "got"
    /\ lock' = NoWorker
    /\ IF msg[w].type = "NewJob"
       THEN /\ pc' = [pc EXCEPT ![w] = "lock"]
            /\ jobState' = [jobState EXCEPT ![msg[w].job] = "running"]
            /\ runs' = [runs EXCEPT ![msg[w].job] = @ + 1]
            /\ UNCHANGED <<queue, msg>>
       ELSE /\ pc' = [pc EXCEPT ![w] = "terminated"]
            /\ msg' = [msg EXCEPT ![w] = NoMsg]
            /\ ThreadExit(w, jobState)
            /\ UNCHANGED runs
    /\ UNCHANGED <<mainVars, poisoned, jobWorker, counter, deqLog, termLog>>

\* the Terminate arm without its break: the loop goes on
UnlockNoBreak(w) ==
    /\ pc[w] = "got"
    /\ lock' = NoWorker
    /\ IF msg[w].type = "NewJob"
       THEN /\ pc' = [pc EXCEPT ![w] = "exec"]
            /\ jobState' = [jobState EXCEPT ![msg[w].job] = "running"]
            /\ runs' = [runs EXCEPT ![msg[w].job] = @ + 1]
            /\ UNCHANGED <<queue, msg>>
       ELSE /\ pc' = [pc EXCEPT ![w] = "lock"]
            /\ msg' = [msg EXCEPT ![w] = NoMsg]
            /\ UNCHANGED <<queue, jobState, runs>>
    /\ UNCHANGED <<mainVars, poisoned, jobWorker, counter, deqLog, termLog>>

\* the guard kept while the job runs
UnlockHoldGuard(w) ==
    /\ pc[w] = "got"
    /\ IF msg[w].type = "NewJob"
       THEN /\ pc' = [pc EXCEPT ![w] = "exec"]
            /\ jobState' = [jobState EXCEPT ![msg[w].job] = "running"]
            /\ runs' = [runs EXCEPT ![msg[w].job] = @ + 1]
            /\ UNCHANGED <<queue, msg, lock>>
       ELSE /\ pc' = [pc EXCEPT ![w] = "terminated"]
            /\ msg' = [msg EXCEPT ![w] = NoMsg]
            /\ lock' = NoWorker
            /\ ThreadExit(w, jobState)
            /\ UNCHANGED runs
    /\ UNCHANGED <<mainVars, poisoned, jobWorker, counter, deqLog, termLog>>

\* End of the let statement: the temporary guard is dropped, then the match
\* either calls the job or breaks out of the loop.
Unlock(w) ==
    /\ pc[w] = "got"
    /\ lock' = NoWorker
    /\ IF msg[w].type = "NewJob"
       THEN /\ pc' = [pc EXCEPT ![w] = "exec"]
            /\ jobState' = [jobState EXCEPT ![msg[w].job] = "running"]
            /\ runs' = [runs EXCEPT ![msg[w].job] = @ + 1]
            /\ UNCHANGED <<queue, msg>>
       ELSE /\ pc' = [pc EXCEPT ![w] = "terminated"]
            /\ msg' = [msg EXCEPT ![w] = NoMsg]
            /\ ThreadExit(w, jobState)
            /\ UNCHANGED runs
    /\ UNCHANGED <<mainVars, poisoned, jobWorker, counter, deqLog, termLog>>

\* the job called with the guard still held, so that its panic poisons the lock
RunJobPoison(w) ==
    /\ pc[w] = "exec"
    /\ LET j == msg[w].job IN
       IF kind[j] = "ok"
       THEN /\ counter' = counter + 1
            /\ jobState' = [jobState EXCEPT ![j] = "done"]
            /\ pc' = [pc EXCEPT ![w] = "lock"]
            /\ UNCHANGED <<queue, poisoned>>
       ELSE /\ pc' = [pc EXCEPT ![w] = "panicked"]
            /\ poisoned' = TRUE
            /\ ThreadExit(w, [jobState EXCEPT ![j] = "panicked"])
            /\ UNCHANGED counter
    /\ msg' = [msg EXCEPT ![w] = NoMsg]
    /\ UNCHANGED <<mainVars, lock, jobWorker, runs, deqLog, termLog>>

\* the loop left after one job
RunJobBreak(w) ==
    /\ pc[w] = "exec"
    /\ LET j == msg[w].job IN
       IF kind[j] = "ok"
       THEN /\ counter' = counter + 1
            /\ pc' = [pc EXCEPT ![w] = "terminated"]
            /\ ThreadExit(w, [jobState EXCEPT ![j] = "done"])
       ELSE /\ pc' = [pc EXCEPT ![w] = "panicked"]
            /\ ThreadExit(w, [jobState EXCEPT ![j] = "panicked"])
            /\ UNCHANGED counter
    /\ msg' = [msg EXCEPT ![w] = NoMsg]
    /\ UNCHANGED <<mainVars, lock, poisoned, jobWorker, runs, deqLog, termLog>>

\* job(): the closure runs to its end, or panics and unwinds the thread.
RunJob(w) ==
    /\ pc[w] = "exec"
    /\ LET j == msg[w].job IN
       IF kind[j] = "ok"
       THEN /\ counter' = counter + 1
            /\ jobState' = [jobState EXCEPT ![j] = "done"]
            /\ pc' = [pc EXCEPT ![w] = "lock"]
            /\ UNCHANGED queue
       ELSE /\ pc' = [pc EXCEPT ![w] = "panicked"]
            /\ ThreadExit(w, [jobState EXCEPT ![j] = "panicked"])
            /\ UNCHANGED counter
    /\ msg' = [msg EXCEPT ![w] = NoMsg]
    /\ UNCHANGED <<mainVars, lock, poisoned, jobWorker, runs, deqLog, termLog>>

WorkerStep(w) == Lock(w) \/ Recv(w) \/ Unlock(w) \/ RunJob(w)

\* ---------------------------------------------------------------- Drop for ThreadPool
Size == Cardinality(WorkerIds)

\* The pool goes out of scope, in normal flow or while its owner unwinds from
\* the panic of execute.
DropBegin ==
    /\ mainPc \in {"run", "execPanicked"}
    /\ mainPc' = "send"
    /\ unwinding' = (mainPc = "execPanicked")
    /\ sendIdx' = 0
    /\ UNCHANGED <<termLog, joinLog, sizeArg, created, workers, sender, queue, pc, msg, lock, poisoned,
                   joinIdx, nextJob, kind, jobState, jobWorker, runs, counter,
                   deqLog, execResult, execAlive, dropFailedAt>>

\* A panic in drop unwinds the owner (the fields of the pool are dropped), or
\* aborts when the owner was unwinding already.
DropPanic(at) ==
    /\ dropFailedAt' = at
    /\ mainPc' = IF unwinding THEN "aborted" ELSE "dropPanicked"
    /\ sender' = "dropped"

\* the first loop left after its first send
DropSendShort ==
    /\ mainPc = "send"
    /\ sendIdx < Size
    /\ IF SendOk
       THEN /\ queue' = Append(queue, Terminate)
            /\ sendIdx' = sendIdx + 1
            /\ mainPc' = "take"
            /\ joinIdx' = 0
            /\ UNCHANGED <<sender, dropFailedAt>>
       ELSE /\ DropPanic("send")
            /\ UNCHANGED <<queue, sendIdx, joinIdx>>
    /\ UNCHANGED <<termLog, joinLog, sizeArg, created, workers, pc, msg, lock,
                   poisoned, unwinding, nextJob, kind, jobState, jobWorker, runs,
                   counter, deqLog, execResult, execAlive>>

\* self.sender.send(Message::Terminate).unwrap(), once per worker
DropSend ==
    /\ mainPc = "send"
    /\ sendIdx < Size
    /\ IF SendOk
       THEN /\ queue' = Append(queue, Terminate)
            /\ sendIdx' = sendIdx + 1
            /\ mainPc' = IF sendIdx + 1 = Size THEN "take" ELSE "send"
            /\ joinIdx' = 0
            /\ UNCHANGED <<sender, dropFailedAt>>
       ELSE /\ DropPanic("send")
            /\ UNCHANGED <<queue, sendIdx, joinIdx>>
    /\ UNCHANGED <<termLog, joinLog, sizeArg, created, workers, pc, msg, lock, poisoned, unwinding, nextJob,
                   kind, jobState, jobWorker, runs, counter, deqLog, execResult,
                   execAlive>>

\* The second loop moves to the next worker, or drop returns and the fields of
\* the pool (the Sender among them) are dropped.
NextWorker ==
    IF joinIdx + 1 = Size
    THEN /\ mainPc' = "dropped"
         /\ sender' = "dropped"
         /\ UNCHANGED joinIdx
    ELSE /\ mainPc' = "take"
         /\ joinIdx' = joinIdx + 1
         /\ UNCHANGED sender

\* the handle looked at but left in the worker
DropTakePeek ==
    /\ mainPc = "take"
    /\ UNCHANGED workers
    /\ IF workers[joinIdx].thread = "Some"
       THEN /\ mainPc' = "join"
            /\ joinLog' = Append(joinLog, joinIdx)
            /\ UNCHANGED <<joinIdx, sender>>
       ELSE /\ NextWorker
            /\ UNCHANGED joinLog
    /\ UNCHANGED <<termLog, sizeArg, created, queue, pc, msg, lock, poisoned,
                   unwinding, sendIdx, nextJob, kind, jobState, jobWorker, runs,
                   counter, deqLog, execResult, execAlive, dropFailedAt>>

\* if let Some(thread) = worker.thread.take()
DropTake ==
    /\ mainPc = "take"
    /\ workers' = [workers EXCEPT ![joinIdx].thread = "None"]
    /\ IF workers[joinIdx].thread = "Some"
       THEN /\ mainPc' = "join"
            /\ joinLog' = Append(joinLog, joinIdx)
            /\ UNCHANGED <<joinIdx, sender>>
       ELSE /\ NextWorker
            /\ UNCHANGED joinLog
    /\ UNCHANGED <<termLog, sizeArg, created, queue, pc, msg, lock, poisoned, unwinding, sendIdx,
                   nextJob, kind, jobState, jobWorker, runs, counter, deqLog,
                   execResult, execAlive, dropFailedAt>>

\* JoinHandle::join returns once the thread has finished
JoinReady(w) == ~Running(w)

\* join not reporting the panic of the thread
JoinOkAlways(w) == TRUE

\* ... with Err when the thread panicked
JoinOk(w) == pc[w] = "terminated"

\* the handle dropped instead of joined: drop goes on without waiting
DropJoinDetach ==
    /\ mainPc = "join"
    /\ NextWorker
    /\ UNCHANGED <<termLog, joinLog, sizeArg, created, workers, queue, pc, msg, lock, poisoned,
                   unwinding, sendIdx, nextJob, kind, jobState, jobWorker, runs,
                   counter, deqLog, execResult, execAlive, dropFailedAt>>

\* thread.join().unwrap()
DropJoin ==
    /\ mainPc = "join"
    /\ JoinReady(joinIdx)
    /\ IF JoinOk(joinIdx)
       THEN /\ NextWorker
            /\ UNCHANGED dropFailedAt
       ELSE /\ DropPanic("join")
            /\ UNCHANGED joinIdx
    /\ UNCHANGED <<termLog, joinLog, sizeArg, created, workers, queue, pc, msg, lock, poisoned, unwinding,
                   sendIdx, nextJob, kind, jobState, jobWorker, runs, counter,
                   deqLog, execResult, execAlive>>

\* ---------------------------------------------------------------- specification
Next ==
    \/ \E size \in 0..MaxSize : New(size)
    \/ \E k \in JobKinds : Execute(k)
    \/ DropBegin
    \/ DropSend
    \/ DropTake
    \/ DropJoin
    \/ \E w \in WorkerIds : Lock(w)
    \/ \E w \in WorkerIds : Recv(w)
    \/ \E w \in WorkerIds : Unlock(w)
    \/ \E w \in WorkerIds : RunJob(w)

Spec == Init /\ [][Next]_vars

\* A pool that is never torn down and whose jobs neither panic nor run forever;
\* the worker threads are scheduled fairly.
NextLive ==
    \/ \E size \in 0..MaxSize : New(size)
    \/ Execute("ok")
    \/ \E w \in WorkerIds : Lock(w)
    \/ \E w \in WorkerIds : Recv(w)
    \/ \E w \in WorkerIds : Unlock(w)
    \/ \E w \in WorkerIds : RunJob(w)

LiveStep(w) == w \in WorkerIds /\ WorkerStep(w)

SpecLive ==
    Init /\ [][NextLive]_vars /\ \A w \in 0..(MaxSize - 1) : WF_vars(LiveStep(w))

\* Teardown of a pool whose jobs neither panic nor run forever: the worker
\* threads are scheduled fairly, and so is the thread that runs drop.
NextTeardown ==
    \/ \E size \in 0..MaxSize : New(size)
    \/ Execute("ok")
    \/ DropBegin
    \/ DropSend
    \/ DropTake
    \/ DropJoin
    \/ \E w \in WorkerIds : Lock(w)
    \/ \E w \in WorkerIds : Recv(w)
    \/ \E w \in WorkerIds : Unlock(w)
    \/ \E w \in WorkerIds : RunJob(w)

DropStep == DropSend \/ DropTake \/ DropJoin

Fairness ==
    /\ \A w \in 0..(MaxSize - 1) : WF_vars(LiveStep(w))
    /\ WF_vars(DropStep)

SpecTeardown == Init /\ [][NextTeardown]_vars /\ Fairness

\* The whole program, jobs that panic included, under the same scheduling.
SpecFair == Init /\ [][Next]_vars /\ Fairness

TypeOK ==
    /\ created \in {"none", "Ok", "Err"}
    /\ sender \in {"none", "alive", "dropped"}
    /\ lock \in WorkerIds \cup {NoWorker}
    /\ poisoned \in BOOLEAN
    /\ mainPc \in {"init", "err", "run", "execPanicked", "send", "take", "join",
                   "dropped", "dropPanicked", "aborted"}
    /\ \A w \in WorkerIds :
          pc[w] \in {"lock", "recv", "got", "exec", "terminated", "panicked"}
    /\ nextJob \in 1..(MaxJobs + 1)
    /\ counter \in 0..MaxJobs

\* ---------------------------------------------------------------- properties
Submitted == 1..(nextJob - 1)

\* the jobs worker w has dequeued and not yet run to their end
Active(w) == {j \in JobIds : jobWorker[j] = w /\ jobState[j] \in {"taken", "running"}}

StrictlyIncreasing(s) == \A i, k \in 1..Len(s) : i < k => s[i] < s[k]

C3_DropWaits ==
    /\ mainPc = "dropped" => \A w \in WorkerIds : ~Running(w)
    /\ mainPc \in {"take", "join"} =>
          \A w \in WorkerIds : w < joinIdx => ~Running(w)

C3_Witness ==
    /\ mainPc = "dropped"
    /\ Size = 2
    /\ counter >= 1

\* C4: once drop has returned, every job passed to execute has been run to its
\* end exactly once, so the counter equals the number of submitted jobs.
C4_NoJobLost ==
    mainPc = "dropped" =>
        /\ \A j \in Submitted : jobState[j] = "done" /\ runs[j] = 1
        /\ counter = nextJob - 1

C4_Witness ==
    /\ mainPc = "dropped"
    /\ Size = 2
    /\ counter >= 2

\* C5: jobs enter the queue and are dequeued in the order of their execute
\* calls (job ids are given in that order), whichever workers dequeue them.
C5_Fifo ==
    /\ StrictlyIncreasing(JobsOf(queue))
    /\ StrictlyIncreasing(deqLog)
    /\ \A a \in SeqToSet(deqLog) : \A b \in SeqToSet(JobsOf(queue)) : a < b

\* two workers, the later job completed while the earlier one still runs
C5_Witness ==
    /\ Len(deqLog) >= 2
    /\ jobState[1] = "running"
    /\ jobState[2] = "done"
    /\ jobWorker[1] # jobWorker[2]

\* C7: a worker has at most one job dequeued and unfinished, and none while it
\* is waiting for the lock or for a message.
C7_OneJobPerWorker ==
    \A w \in WorkerIds :
        /\ Cardinality(Active(w)) <= 1
        /\ pc[w] \in {"lock", "recv"} => Active(w) = {}
        /\ pc[w] = "exec" => Active(w) = {msg[w].job}

\* a worker that ran one job to its end is running its next one
C7_Witness ==
    \E w \in WorkerIds : \E j1, j2 \in JobIds :
        /\ jobWorker[j1] = w /\ jobState[j1] = "done"
        /\ jobWorker[j2] = w /\ jobState[j2] = "running"

\* C8: execute panics exactly when no worker thread was alive at the call; with
\* at least one alive it succeeds, however many workers were lost before.
C8_ExecuteFailure ==
    /\ execResult = "panic" => execAlive = 0
    /\ execResult = "ok" => execAlive >= 1
    /\ mainPc = "execPanicked" => execResult = "panic"

\* execute succeeded on a pool of two that had lost one worker to a panic
C8_Witness ==
    /\ execResult = "ok"
    /\ Size = 2
    /\ execAlive = 1
    /\ \E w \in WorkerIds : pc[w] = "panicked"

\* a panicking job was accepted by execute
PanicSubmitted ==
    \E j \in Submitted : kind[j] = "panic" /\ jobState[j] # "rejected"

\* C2: on a pool that is never torn down, with no job panicking and fair worker
\* threads, every job passed to execute is eventually run to its end, and no
\* job is ever called twice.
C2_AllJobsRun ==
    /\ \A j \in JobIds : (jobState[j] = "queued") ~> (jobState[j] = "done")
    /\ [](\A j \in JobIds : runs[j] <= 1 /\ (jobState[j] = "done" => runs[j] = 1))

C2_Witness ==
    /\ Size = 2
    /\ counter >= 3
    /\ \A j \in 1..3 : jobState[j] = "done" /\ runs[j] = 1

\* C6: the panic of a job ends the thread of its worker only: the step leaves
\* every other worker, the lock and the queue as they were and does not poison
\* the lock, so while the pool lives the lock is never poisoned and the other
\* workers go on dequeuing.
C6_FaultIsolation ==
    /\ [][\A w \in WorkerIds :
            (pc[w] = "exec" /\ pc'[w] = "panicked") =>
                /\ \A v \in WorkerIds \ {w} : pc'[v] = pc[v] /\ msg'[v] = msg[v]
                /\ lock' = lock
                /\ ~poisoned'
                /\ (LiveWorkers \ {w} # {} => queue' = queue)]_vars
    /\ [](sender = "alive" => ~poisoned)

\* a job submitted after one of two workers was lost has been run to its end
C6_Witness ==
    /\ mainPc = "run"
    /\ Size = 2
    /\ execResult = "ok"
    /\ execAlive = 1
    /\ \E w \in WorkerIds : pc[w] = "panicked"
    /\ jobState[nextJob - 1] = "done"

\* C9 as stated: on a pool of one worker with a panicking job submitted, the
\* failure of drop is raised at the join of the worker.
C9_FailsAtJoin ==
    (sizeArg = 1 /\ PanicSubmitted /\ ~unwinding /\ dropFailedAt # "none") =>
        dropFailedAt = "join"

\* C9 amended: on a pool of one worker with a panicking job submitted, drop
\* never returns normally; it panics at the join when the worker was alive to
\* receive the Terminate, and at the send of the Terminate when the worker had
\* panicked before.
C9_DropFails ==
    (sizeArg = 1 /\ PanicSubmitted) =>
        /\ mainPc # "dropped"
        /\ dropFailedAt = "join" =>
              pc[0] = "panicked" /\ sendIdx = 1 /\ workers[0].thread = "None"
        /\ dropFailedAt = "send" =>
              pc[0] = "panicked" /\ sendIdx = 0 /\ workers[0].thread = "Some"

C9_Witness ==
    /\ sizeArg = 1
    /\ PanicSubmitted
    /\ ~unwinding
    /\ dropFailedAt = "send"

\* C10: a successful execute appends its NewJob message to the tail of the
\* queue and changes no worker, no lock and no other job; execute never waits:
\* it can be called in every state in which the owner holds the pool.
C10_ExecuteFrame ==
    /\ [][(nextJob' # nextJob /\ execResult' = "ok") =>
            /\ queue' = Append(queue, NewJob(nextJob))
            /\ UNCHANGED <<workers, sender, pc, msg, lock, poisoned, jobWorker,
                           runs, counter, deqLog, mainPc>>
            /\ \A j \in JobIds \ {nextJob} : jobState'[j] = jobState[j]]_vars
    /\ []((mainPc = "run" /\ nextJob <= MaxJobs) => ENABLED (\E k \in JobKinds : Execute(k)))

\* execute returned with every worker busy and two messages waiting
C10_Witness ==
    /\ mainPc = "run"
    /\ execResult = "ok"
    /\ Size >= 1
    /\ \A w \in WorkerIds : pc[w] = "exec"
    /\ Len(queue) >= 2
    /\ queue[Len(queue)] = NewJob(nextJob - 1)

\* ---------------------------------------------------------------- teardown
\* the number of Terminate messages in a queue
TermsIn(q) == Cardinality({i \in 1..Len(q) : q[i].type = "Terminate"})

\* the workers whose thread ended in the panic of a job
LostToPanic ==
    {w \in WorkerIds : pc[w] = "panicked" /\
        \E j \in JobIds : jobWorker[j] = w /\ jobState[j] = "panicked"}

NoDuplicates(s) == \A i, k \in 1..Len(s) : i # k => s[i] # s[k]

\* C11: drop never sends more than one Terminate per worker, all n are sent
\* (each one queued or dequeued, none lost) before the first thread handle is
\* taken for a join, and the handles are taken in the order 0, 1, .., n-1.
C11_TwoPhase ==
    /\ sendIdx <= Size
    /\ (mainPc \in {"take", "join", "dropped"} \/ joinLog # <<>>) => sendIdx = Size
    /\ ReceiverAlive => TermsIn(queue) + Len(termLog) = sendIdx
    /\ \A i \in 1..Len(joinLog) : joinLog[i] = i - 1
    /\ mainPc = "dropped" => Len(joinLog) = Size

\* the first join of a pool of two has begun with both Terminates still queued
C11_Witness ==
    /\ Size = 2
    /\ mainPc = "join"
    /\ joinLog = <<0>>
    /\ TermsIn(queue) = 2

\* C12: no Terminate is dequeued while a job is still queued: once a worker has
\* taken a Terminate, every accepted job has been dequeued by some worker, and
\* in the queue no NewJob stands behind a Terminate.
C12_JobsBeforeTerminate ==
    /\ termLog # <<>> =>
          /\ JobsOf(queue) = <<>>
          /\ \A j \in Submitted : jobState[j] \in {"taken", "running", "done", "panicked"}
    /\ \A i, k \in 1..Len(queue) :
          (queue[i].type = "Terminate" /\ queue[k].type = "NewJob") => k < i

\* a Terminate was dequeued after the three jobs submitted before teardown
C12_Witness ==
    /\ termLog # <<>>
    /\ Len(deqLog) >= 3
    /\ Size = 2

\* C13: in a teardown without panicking jobs no worker dequeues two Terminates,
\* a worker that dequeued one dequeues nothing more and exits, and once drop has
\* begun all n Terminates are eventually dequeued, one by each worker, and every
\* worker terminates.
C13_OneTerminateEach ==
    /\ [](/\ NoDuplicates(termLog)
          /\ Len(termLog) <= Size
          /\ \A w \in WorkerIds :
                /\ w \in SeqToSet(termLog) =>
                      \/ pc[w] = "got" /\ msg[w] = Terminate
                      \/ pc[w] = "terminated"
                /\ pc[w] = "terminated" => w \in SeqToSet(termLog))
    /\ (mainPc = "send") ~>
          (/\ \A w \in WorkerIds : pc[w] = "terminated"
           /\ SeqToSet(termLog) = WorkerIds
           /\ Len(termLog) = Size)

\* worker 1 took the first Terminate and worker 0 the second
C13_Witness ==
    /\ termLog = <<1, 0>>
    /\ pc[0] = "terminated"
    /\ pc[1] = "terminated"
    /\ counter >= 1

\* the jobs execute put into the channel
Accepted == {j \in Submitted : jobState[j] # "rejected"}

\* C14: at most one worker is in the dequeue (holds the guard) at a time; no job
\* is dequeued twice or called twice, a dequeued job has one owner, and while the
\* channel exists every message sent is either queued or was dequeued once.
C14_ExclusiveDequeue ==
    /\ Cardinality({w \in WorkerIds : pc[w] \in {"recv", "got"}}) <= 1
    /\ NoDuplicates(deqLog)
    /\ \A j \in JobIds :
          /\ runs[j] <= 1
          /\ jobState[j] \in {"taken", "running", "done", "panicked"} =>
                jobWorker[j] \in WorkerIds /\ j \in SeqToSet(deqLog)
          /\ j \in SeqToSet(deqLog) => j \in Accepted
    /\ ReceiverAlive =>
          Len(queue) + Len(deqLog) + Len(termLog) = Cardinality(Accepted) + sendIdx

\* during a teardown one worker holds the guard with a message in its hands
\* while the other, back from a job, waits for the lock and messages are queued
C14_Witness ==
    /\ Size = 2
    /\ mainPc \in {"send", "take", "join"}
    /\ Len(deqLog) >= 2
    /\ \E w, v \in WorkerIds : pc[w] = "got" /\ lock = w /\ pc[v] = "lock"
    /\ queue # <<>>

\* C15: every handle is present until drop takes it, no handle is taken twice,
\* and after a normal return of drop every handle has been taken.
C15_HandleTakenOnce ==
    /\ NoDuplicates(joinLog)
    /\ mainPc \in {"run", "execPanicked", "send"} =>
          \A w \in WorkerIds : workers[w].thread = "Some"
    /\ \A w \in WorkerIds : workers[w].thread = "None" <=> w \in SeqToSet(joinLog)
    /\ mainPc = "dropped" => \A w \in WorkerIds : workers[w].thread = "None"

C15_Witness ==
    /\ mainPc = "dropped"
    /\ Size = 2
    /\ joinLog = <<0, 1>>
    /\ \A w \in WorkerIds : workers[w].thread = "None"

\* C16 as stated: before teardown begins every worker is Running, and no
\* execute call finds the channel without receivers.
C16_AllRunningBeforeTeardown ==
    mainPc \in {"run", "execPanicked"} =>
        /\ \A w \in WorkerIds : Running(w)
        /\ execResult # "panic"

\* C16 amended: a worker thread ends only on a Terminate it dequeued or in the
\* panic of a job it ran, and Terminates exist only once drop has begun: before
\* teardown every worker that ran no panicking job is Running, and execute
\* finds no receiver only when every worker was lost to a panicking job.
C16_ExitCauses ==
    /\ \A w \in WorkerIds :
          /\ pc[w] = "terminated" => w \in SeqToSet(termLog)
          /\ pc[w] = "panicked" => w \in LostToPanic
    /\ mainPc \in {"init", "run", "execPanicked"} =>
          /\ termLog = <<>>
          /\ TermsIn(queue) = 0
          /\ \A w \in WorkerIds : Running(w) \/ w \in LostToPanic
    /\ mainPc = "execPanicked" => LostToPanic = WorkerIds

\* execute found no receiver before any teardown: both workers ran a panicking job
C16_Witness ==
    /\ mainPc = "execPanicked"
    /\ Size = 2
    /\ LostToPanic = WorkerIds
    /\ termLog = <<>>

\* C17: without panicking jobs teardown never fails: at most as many workers
\* have exited as Terminates were sent, so every send finds a receiver, every
\* join succeeds, and drop, once begun, eventually returns.
C17_TeardownCompletes ==
    /\ [](/\ dropFailedAt = "none"
          /\ mainPc \notin {"execPanicked", "dropPanicked", "aborted"}
          /\ Cardinality(WorkerIds \ LiveWorkers) <= sendIdx
          /\ (mainPc = "send" /\ sendIdx < Size) => SendOk
          /\ \A w \in WorkerIds : ~Running(w) => JoinOk(w))
    /\ (mainPc = "send") ~> (mainPc = "dropped")

\* a worker has exited on the first Terminate while the second is not yet sent
C17_Witness ==
    /\ mainPc = "send"
    /\ Size = 2
    /\ sendIdx = 1
    /\ \E w \in WorkerIds : pc[w] = "terminated"

\* C18: the lock is never poisoned, no worker waits in recv on an empty channel
\* whose Sender is gone, and no worker thread panics except in a job.
C18_RecvNeverFails ==
    /\ ~poisoned
    /\ \A w \in WorkerIds :
          /\ pc[w] = "recv" => (queue # <<>> \/ sender = "alive")
          /\ pc[w] = "panicked" => w \in LostToPanic

\* drop failed at a join and dropped the Sender; a live worker is in recv and
\* finds a message
C18_Witness ==
    /\ dropFailedAt = "join"
    /\ sender = "dropped"
    /\ queue # <<>>
    /\ \E w \in WorkerIds : pc[w] = "recv"

\* C19: a worker holds the guard exactly while it is in recv or has just taken
\* its message; a worker that runs a job does not hold it.
C19_LockScope ==
    /\ \A w \in WorkerIds :
          /\ lock = w <=> pc[w] \in {"recv", "got"}
          /\ pc[w] = "exec" => lock # w
    /\ lock # NoWorker => lock \in WorkerIds

\* two workers run two different jobs at the same time
C19_Witness ==
    /\ Size = 2
    /\ pc[0] = "exec"
    /\ pc[1] = "exec"
    /\ msg[0].job # msg[1].job
    /\ lock = NoWorker

\* the join phase of drop has been reached or left: all n Terminates are sent
AllTerminatesSent ==
    /\ mainPc \in {"take", "join", "dropped", "dropPanicked"}
    /\ sendIdx = Size

\* C20: once all n Terminates are sent, every live worker eventually terminates,
\* also when workers were lost to panics and a join failed; the Terminates not
\* dequeued stay in the queue as long as the channel exists, and when no worker
\* is left their number is the number of workers lost to panics.
C20_LiveWorkersTerminate ==
    /\ AllTerminatesSent ~> (LiveWorkers = {})
    /\ [](AllTerminatesSent =>
            /\ ReceiverAlive => TermsIn(queue) = Size - Len(termLog)
            /\ TermsIn(queue) >= Cardinality(LostToPanic) \/ ~ReceiverAlive
            /\ LiveWorkers = {} => Size - Len(termLog) = Cardinality(LostToPanic))

\* the join of a panicked worker failed, the other worker took its Terminate
\* and exited, one Terminate was never dequeued
C20_Witness ==
    /\ dropFailedAt = "join"
    /\ Size = 2
    /\ LiveWorkers = {}
    /\ Cardinality(LostToPanic) = 1
    /\ Len(termLog) = 1

====
